---- MODULE Spec2Model ----
(***************************************************************************)
(* XOR-linked doubly-ended list over a slot arena (src/src/linked_list.rs).*)
(* Handles are usize: 0 is null, any other handle is slot index + 1.       *)
(* A usize value that wrapped below zero is written as its negative        *)
(* residue (-1 stands for usize::MAX); every other value is itself.        *)
(***************************************************************************)
EXTENDS Integers, Sequences, FiniteSets, TLC

\* ---- bounds of the exploration ----
MaxPushes == 4
NumPayloads == 3
MaxExtraNext == 2
MaxSlots == 3
MaxFree == 3

Payloads == 0 .. (NumPayloads - 1)

VARIABLES
    list,             \* the LinkedList<T>: head, tail, memory
    mem,              \* a Memory<T> used on its own (arena operations)
    overflow_checks,  \* build profile: TRUE panics on usize overflow, FALSE wraps
    panicked,         \* an operation panicked
    lastOp,           \* name of the last operation called
    arg,              \* its argument (payload or handle), 0 if none
    ret,              \* its result as an Option: <<>> is None, <<v>> is Some(v)
    abs,              \* the abstract sequence the list stands for, front to back
    pushes,           \* number of push calls so far
    pops,             \* number of pop calls that returned a value
    run,              \* pushes and pops since the list was last empty
    iterating,        \* the list was moved into a LinkedListIter
    iterSrc,          \* front-to-back contents of the list when it was moved
    nexts,            \* results of the next() calls so far, in call order
    mirror,           \* a second list given the same calls with front and back swapped
    order,            \* the handles of the live nodes, front to back, as alloc returned them
    maxLen,           \* the largest len() the list has had
    alt               \* a second list given the same calls, free to reuse any vacated slot

vars == <<list, mem, overflow_checks, panicked, lastOp, arg, ret, abs,
          pushes, pops, run, iterating, iterSrc, nexts, mirror, order, maxLen, alt>>

\* ---- Option<T> ----
None == <<>>
Some(x) == <<x>>
\* the values of a sequence of Options (flatten)
Values(q) == SelectSeq(q, LAMBDA o : o # None)

\* ---- usize arithmetic ----
RECURSIVE Xor(_, _)
Xor(a, b) ==
    IF a = 0 THEN b
    ELSE IF b = 0 THEN a
    ELSE (((a % 2) + (b % 2)) % 2) + 2 * Xor(a \div 2, b \div 2)

\* ---- Node ----
Node_new(payload) == [ptr |-> 0, payload |-> payload]

\* ---- Memory ----
Memory_new == [slots |-> <<>>, free_slots |-> <<>>]

\* slots.get_mut(index).and_then(Option::as_mut) for a 0-based index
slot_at(m, index) ==
    IF index >= 0 /\ index < Len(m.slots) THEN m.slots[index + 1] ELSE None

\* alloc as it would be if it never looked at free_slots
alloc_always_append(m, payload) ==
    [mem |-> [m EXCEPT !.slots = Append(m.slots, Some(Node_new(payload)))],
     ret |-> Len(m.slots) + 1, panic |-> FALSE]

\* alloc as it would be if a reused slot's handle were returned without the + 1
alloc_reuse_index_as_handle(m, payload) ==
    IF m.free_slots # <<>>
    THEN LET slot_index == m.free_slots[Len(m.free_slots)]
             popped == SubSeq(m.free_slots, 1, Len(m.free_slots) - 1)
         IN  IF slot_index >= 0 /\ slot_index < Len(m.slots)
             THEN [mem |-> [slots |-> [m.slots EXCEPT ![slot_index + 1] = Some(Node_new(payload))],
                            free_slots |-> popped],
                   ret |-> slot_index, panic |-> FALSE]
             ELSE [mem |-> [m EXCEPT !.free_slots = popped], ret |-> 0, panic |-> TRUE]
    ELSE [mem |-> [m EXCEPT !.slots = Append(m.slots, Some(Node_new(payload)))],
          ret |-> Len(m.slots) + 1, panic |-> FALSE]

alloc(m, payload) ==
    IF m.free_slots # <<>>
    THEN LET slot_index == m.free_slots[Len(m.free_slots)]
             popped == SubSeq(m.free_slots, 1, Len(m.free_slots) - 1)
         IN  IF slot_index >= 0 /\ slot_index < Len(m.slots)
             THEN [mem |-> [slots |-> [m.slots EXCEPT ![slot_index + 1] = Some(Node_new(payload))],
                            free_slots |-> popped],
                   ret |-> slot_index + 1, panic |-> FALSE]
             ELSE \* index out of bounds
                  [mem |-> [m EXCEPT !.free_slots = popped], ret |-> 0, panic |-> TRUE]
    ELSE [mem |-> [m EXCEPT !.slots = Append(m.slots, Some(Node_new(payload)))],
          ret |-> Len(m.slots) + 1, panic |-> FALSE]

\* remove as it would be if the handle, not the index, went onto the free stack
remove_push_handle(m, ptr) ==
    IF ptr = 0 /\ overflow_checks
    THEN [mem |-> m, ret |-> None, panic |-> TRUE]
    ELSE LET index == ptr - 1
             pushed == [m EXCEPT !.free_slots = Append(m.free_slots, ptr)]
             slot == slot_at(m, index)
         IN  IF slot # None
             THEN [mem |-> [pushed EXCEPT !.slots[index + 1] = None],
                   ret |-> Some(slot[1].payload), panic |-> FALSE]
             ELSE [mem |-> pushed, ret |-> None, panic |-> FALSE]

remove(m, ptr) ==
    IF ptr = 0 /\ overflow_checks
    THEN \* ptr - 1: attempt to subtract with overflow
         [mem |-> m, ret |-> None, panic |-> TRUE]
    ELSE LET index == ptr - 1
             pushed == [m EXCEPT !.free_slots = Append(m.free_slots, index)]
             slot == slot_at(m, index)
         IN  IF slot # None
             THEN [mem |-> [pushed EXCEPT !.slots[index + 1] = None],
                   ret |-> Some(slot[1].payload), panic |-> FALSE]
             ELSE [mem |-> pushed, ret |-> None, panic |-> FALSE]

\* get_mut as it would be if the handle were used as the index
get_mut_handle_as_index(m, ptr) ==
    IF ptr = 0 THEN None ELSE slot_at(m, ptr)

get_mut(m, ptr) ==
    IF ptr = 0 THEN None ELSE slot_at(m, ptr - 1)

\* the write `node.ptr ^= x` through the reference get_mut(ptr) returned
xor_ptr(m, ptr, x) ==
    [m EXCEPT !.slots[ptr] = Some([@[1] EXCEPT !.ptr = Xor(@, x)])]

Memory_len(m) ==
    IF Len(m.slots) < Len(m.free_slots) /\ overflow_checks
    THEN [val |-> 0, panic |-> TRUE]
    ELSE [val |-> Len(m.slots) - Len(m.free_slots), panic |-> FALSE]

\* ---- LinkedList ----
LinkedList_new == [head |-> 0, tail |-> 0, memory |-> Memory_new]

len(l) == Memory_len(l.memory)

\* push_front as it would be without the `if self.len() == 1` block
push_front_no_tail(l, payload) ==
    LET a == alloc(l.memory, payload)
        node_ptr == a.ret
        old_head_ptr == l.head
        l1 == [l EXCEPT !.memory = a.mem]
    IN  IF a.panic THEN [list |-> l1, panic |-> TRUE]
        ELSE LET l2 == [l1 EXCEPT !.head = node_ptr]
             IN  IF get_mut(l2.memory, node_ptr) = None
                 THEN [list |-> l2, panic |-> TRUE]
                 ELSE LET m1 == xor_ptr(l2.memory, node_ptr, old_head_ptr)
                          m2 == IF get_mut(m1, old_head_ptr) # None
                                THEN xor_ptr(m1, old_head_ptr, node_ptr)
                                ELSE m1
                      IN  [list |-> [l2 EXCEPT !.memory = m2], panic |-> FALSE]

\* push_front as it would be without `old_head.ptr ^= node_ptr`
push_front_no_back_link(l, payload) ==
    LET a == alloc(l.memory, payload)
        node_ptr == a.ret
        old_head_ptr == l.head
        l1 == [l EXCEPT !.memory = a.mem]
    IN  IF a.panic THEN [list |-> l1, panic |-> TRUE]
        ELSE LET l2 == [l1 EXCEPT !.head = node_ptr]
             IN  IF get_mut(l2.memory, node_ptr) = None
                 THEN [list |-> l2, panic |-> TRUE]
                 ELSE LET m1 == xor_ptr(l2.memory, node_ptr, old_head_ptr)
                          l3 == [l2 EXCEPT !.memory = m1]
                          n == len(l3)
                      IN  IF n.panic THEN [list |-> l3, panic |-> TRUE]
                          ELSE IF n.val = 1
                               THEN [list |-> [l3 EXCEPT !.tail = node_ptr], panic |-> FALSE]
                               ELSE [list |-> l3, panic |-> FALSE]

push_front(l, payload) ==
    LET a == alloc(l.memory, payload)
        node_ptr == a.ret
        old_head_ptr == l.head
        l1 == [l EXCEPT !.memory = a.mem]
    IN  IF a.panic THEN [list |-> l1, panic |-> TRUE]
        ELSE LET l2 == [l1 EXCEPT !.head = node_ptr]
             IN  IF get_mut(l2.memory, node_ptr) = None
                 THEN [list |-> l2, panic |-> TRUE]    \* unwrap() on None
                 ELSE LET m1 == xor_ptr(l2.memory, node_ptr, old_head_ptr)
                          m2 == IF get_mut(m1, old_head_ptr) # None
                                THEN xor_ptr(m1, old_head_ptr, node_ptr)
                                ELSE m1
                          l3 == [l2 EXCEPT !.memory = m2]
                          n == len(l3)
                      IN  IF n.panic THEN [list |-> l3, panic |-> TRUE]
                          ELSE IF n.val = 1
                               THEN [list |-> [l3 EXCEPT !.tail = node_ptr], panic |-> FALSE]
                               ELSE [list |-> l3, panic |-> FALSE]

\* push_back as it would be without the `if self.len() == 1` block
push_back_no_head(l, payload) ==
    LET a == alloc(l.memory, payload)
        node_ptr == a.ret
        old_tail_ptr == l.tail
        l1 == [l EXCEPT !.memory = a.mem]
    IN  IF a.panic THEN [list |-> l1, panic |-> TRUE]
        ELSE LET l2 == [l1 EXCEPT !.tail = node_ptr]
             IN  IF get_mut(l2.memory, node_ptr) = None
                 THEN [list |-> l2, panic |-> TRUE]
                 ELSE LET m1 == xor_ptr(l2.memory, node_ptr, old_tail_ptr)
                          m2 == IF get_mut(m1, old_tail_ptr) # None
                                THEN xor_ptr(m1, old_tail_ptr, node_ptr)
                                ELSE m1
                      IN  [list |-> [l2 EXCEPT !.memory = m2], panic |-> FALSE]

push_back(l, payload) ==
    LET a == alloc(l.memory, payload)
        node_ptr == a.ret
        old_tail_ptr == l.tail
        l1 == [l EXCEPT !.memory = a.mem]
    IN  IF a.panic THEN [list |-> l1, panic |-> TRUE]
        ELSE LET l2 == [l1 EXCEPT !.tail = node_ptr]
             IN  IF get_mut(l2.memory, node_ptr) = None
                 THEN [list |-> l2, panic |-> TRUE]    \* unwrap() on None
                 ELSE LET m1 == xor_ptr(l2.memory, node_ptr, old_tail_ptr)
                          m2 == IF get_mut(m1, old_tail_ptr) # None
                                THEN xor_ptr(m1, old_tail_ptr, node_ptr)
                                ELSE m1
                          l3 == [l2 EXCEPT !.memory = m2]
                          n == len(l3)
                      IN  IF n.panic THEN [list |-> l3, panic |-> TRUE]
                          ELSE IF n.val = 1
                               THEN [list |-> [l3 EXCEPT !.head = node_ptr], panic |-> FALSE]
                               ELSE [list |-> l3, panic |-> FALSE]

\* pop_front as it would be without `next_node.ptr ^= head_node_ptr`
pop_front_keep_link(l) ==
    LET head_node_ptr == l.head
        head_node == get_mut(l.memory, head_node_ptr)
    IN  IF head_node = None THEN [list |-> l, ret |-> None, panic |-> FALSE]
        ELSE LET next_node_ptr == head_node[1].ptr
                 l1 == [l EXCEPT !.head = next_node_ptr]
                 n == len(l1)
             IN  IF n.panic THEN [list |-> l1, ret |-> None, panic |-> TRUE]
                 ELSE LET l2 == IF n.val = 1 THEN [l1 EXCEPT !.tail = 0] ELSE l1
                          r == remove(l2.memory, head_node_ptr)
                      IN  [list |-> [l2 EXCEPT !.memory = r.mem], ret |-> r.ret, panic |-> r.panic]

\* pop_front as it would be without the `if self.len() == 1` block
pop_front_keep_tail(l) ==
    LET head_node_ptr == l.head
        head_node == get_mut(l.memory, head_node_ptr)
    IN  IF head_node = None THEN [list |-> l, ret |-> None, panic |-> FALSE]
        ELSE LET next_node_ptr == head_node[1].ptr
                 m1 == IF get_mut(l.memory, next_node_ptr) # None
                       THEN xor_ptr(l.memory, next_node_ptr, head_node_ptr)
                       ELSE l.memory
                 l1 == [l EXCEPT !.memory = m1, !.head = next_node_ptr]
                 r == remove(l1.memory, head_node_ptr)
             IN  [list |-> [l1 EXCEPT !.memory = r.mem], ret |-> r.ret, panic |-> r.panic]

\* pop_front as it would be if an empty list were not returned from early:
\* the head handle, null, goes to remove
pop_front_no_early_return(l) ==
    LET head_node_ptr == l.head
        head_node == get_mut(l.memory, head_node_ptr)
        next_node_ptr == IF head_node = None THEN 0 ELSE head_node[1].ptr
        m1 == IF get_mut(l.memory, next_node_ptr) # None
              THEN xor_ptr(l.memory, next_node_ptr, head_node_ptr)
              ELSE l.memory
        l1 == [l EXCEPT !.memory = m1, !.head = next_node_ptr]
        n == len(l1)
    IN  IF n.panic THEN [list |-> l1, ret |-> None, panic |-> TRUE]
        ELSE LET l2 == IF n.val = 1 THEN [l1 EXCEPT !.tail = 0] ELSE l1
                 r == remove(l2.memory, head_node_ptr)
             IN  [list |-> [l2 EXCEPT !.memory = r.mem], ret |-> r.ret, panic |-> r.panic]

pop_front(l) ==
    LET head_node_ptr == l.head
        head_node == get_mut(l.memory, head_node_ptr)
    IN  IF head_node = None THEN [list |-> l, ret |-> None, panic |-> FALSE]
        ELSE LET next_node_ptr == head_node[1].ptr
                 m1 == IF get_mut(l.memory, next_node_ptr) # None
                       THEN xor_ptr(l.memory, next_node_ptr, head_node_ptr)
                       ELSE l.memory
                 l1 == [l EXCEPT !.memory = m1, !.head = next_node_ptr]
                 n == len(l1)
             IN  IF n.panic THEN [list |-> l1, ret |-> None, panic |-> TRUE]
                 ELSE LET l2 == IF n.val = 1 THEN [l1 EXCEPT !.tail = 0] ELSE l1
                          r == remove(l2.memory, head_node_ptr)
                      IN  [list |-> [l2 EXCEPT !.memory = r.mem], ret |-> r.ret, panic |-> r.panic]

\* pop_back as it would be without `prev_node.ptr ^= tail_node_ptr`
pop_back_keep_link(l) ==
    LET tail_node_ptr == l.tail
        tail_node == get_mut(l.memory, tail_node_ptr)
    IN  IF tail_node = None THEN [list |-> l, ret |-> None, panic |-> FALSE]
        ELSE LET prev_node_ptr == tail_node[1].ptr
                 l1 == [l EXCEPT !.tail = prev_node_ptr]
                 n == len(l1)
             IN  IF n.panic THEN [list |-> l1, ret |-> None, panic |-> TRUE]
                 ELSE LET l2 == IF n.val = 1 THEN [l1 EXCEPT !.head = 0] ELSE l1
                          r == remove(l2.memory, tail_node_ptr)
                      IN  [list |-> [l2 EXCEPT !.memory = r.mem], ret |-> r.ret, panic |-> r.panic]

\* pop_back as it would be without the `if self.len() == 1` block
pop_back_keep_head(l) ==
    LET tail_node_ptr == l.tail
        tail_node == get_mut(l.memory, tail_node_ptr)
    IN  IF tail_node = None THEN [list |-> l, ret |-> None, panic |-> FALSE]
        ELSE LET prev_node_ptr == tail_node[1].ptr
                 m1 == IF get_mut(l.memory, prev_node_ptr) # None
                       THEN xor_ptr(l.memory, prev_node_ptr, tail_node_ptr)
                       ELSE l.memory
                 l1 == [l EXCEPT !.memory = m1, !.tail = prev_node_ptr]
                 r == remove(l1.memory, tail_node_ptr)
             IN  [list |-> [l1 EXCEPT !.memory = r.mem], ret |-> r.ret, panic |-> r.panic]

pop_back(l) ==
    LET tail_node_ptr == l.tail
        tail_node == get_mut(l.memory, tail_node_ptr)
    IN  IF tail_node = None THEN [list |-> l, ret |-> None, panic |-> FALSE]
        ELSE LET prev_node_ptr == tail_node[1].ptr
                 m1 == IF get_mut(l.memory, prev_node_ptr) # None
                       THEN xor_ptr(l.memory, prev_node_ptr, tail_node_ptr)
                       ELSE l.memory
                 l1 == [l EXCEPT !.memory = m1, !.tail = prev_node_ptr]
                 n == len(l1)
             IN  IF n.panic THEN [list |-> l1, ret |-> None, panic |-> TRUE]
                 ELSE LET l2 == IF n.val = 1 THEN [l1 EXCEPT !.head = 0] ELSE l1
                          r == remove(l2.memory, tail_node_ptr)
                      IN  [list |-> [l2 EXCEPT !.memory = r.mem], ret |-> r.ret, panic |-> r.panic]

\* next as it would be if the iterator popped the other end
next_from_back(l) == pop_back(l)

\* LinkedListIter::next
next(l) == pop_front(l)

\* ---- reading the list without changing it ----
\* n pop_front calls on a copy of l: the values they return, in order
RECURSIVE drain(_, _)
drain(l, n) ==
    IF n = 0 THEN <<>>
    ELSE LET r == pop_front(l)
         IN  IF r.ret = None \/ r.panic THEN <<>>
             ELSE <<r.ret[1]>> \o drain(r.list, n - 1)

\* the payloads met walking the XOR links from cur, having arrived from prev
RECURSIVE walk(_, _, _, _)
walk(m, prev, cur, n) ==
    LET node == get_mut(m, cur)
    IN  IF n = 0 \/ node = None THEN <<>>
        ELSE <<node[1].payload>> \o walk(m, cur, Xor(node[1].ptr, prev), n - 1)

\* the handles met on the same walk
RECURSIVE walk_ptrs(_, _, _, _)
walk_ptrs(m, prev, cur, n) ==
    LET node == get_mut(m, cur)
    IN  IF n = 0 \/ node = None THEN <<>>
        ELSE <<cur>> \o walk_ptrs(m, cur, Xor(node[1].ptr, prev), n - 1)

front_to_back(l) == walk(l.memory, 0, l.head, Len(l.memory.slots))

\* ---- bookkeeping of the calls made (not program state) ----
EmptyRun == [push_end |-> "none", pushed |-> <<>>, pop_end |-> "none", popped |-> <<>>]
MixedRun == [push_end |-> "mixed", pushed |-> <<>>, pop_end |-> "mixed", popped |-> <<>>]

\* a run starts whenever an operation finds the list empty
run_base == IF abs = <<>> THEN EmptyRun ELSE run

run_push(end, v) ==
    IF run_base.pop_end = "none" /\ run_base.push_end \in {"none", end}
    THEN [run_base EXCEPT !.push_end = end, !.pushed = Append(@, v)]
    ELSE MixedRun

run_pop(end, r) ==
    IF abs = <<>> THEN EmptyRun
    ELSE IF run_base.push_end # "mixed" /\ run_base.pop_end \in {"none", end}
    THEN [run_base EXCEPT !.pop_end = end, !.popped = Append(@, r)]
    ELSE MixedRun

\* a second list run beside the first: its state, the result of its last call
\* and whether a call on it panicked
Twin_new == [list |-> LinkedList_new, ret |-> None, panicked |-> FALSE]
twin_push(t, r) == [list |-> r.list, ret |-> None, panicked |-> t.panicked \/ r.panic]
twin_pop(t, r) == [list |-> r.list, ret |-> r.ret, panicked |-> t.panicked \/ r.panic]

Max(a, b) == IF a >= b THEN a ELSE b
ButLast(q) == SubSeq(q, 1, Len(q) - 1)

\* ---- initial state: LinkedList::new(), Memory::new() ----
Init ==
    /\ list = LinkedList_new
    /\ mem = Memory_new
    /\ overflow_checks \in BOOLEAN
    /\ panicked = FALSE
    /\ lastOp = "new"
    /\ arg = 0
    /\ ret = None
    /\ abs = <<>>
    /\ pushes = 0
    /\ pops = 0
    /\ run = EmptyRun
    /\ iterating = FALSE
    /\ iterSrc = <<>>
    /\ nexts = <<>>
    /\ mirror = Twin_new
    /\ order = <<>>
    /\ maxLen = 0
    /\ alt = Twin_new

\* ---- operations on the list ----
PushFront(v) ==
    /\ ~panicked /\ ~iterating /\ pushes < MaxPushes
    /\ LET r == push_front(list, v)
       IN  list' = r.list /\ panicked' = r.panic
    /\ lastOp' = "push_front" /\ arg' = v /\ ret' = None
    /\ abs' = <<v>> \o abs
    /\ pushes' = pushes + 1
    /\ run' = run_push("front", v)
    /\ mirror' = twin_push(mirror, push_back(mirror.list, v))
    /\ order' = <<alloc(list.memory, v).ret>> \o order
    /\ maxLen' = Max(maxLen, len(push_front(list, v).list).val)
    /\ UNCHANGED <<mem, overflow_checks, pops, iterating, iterSrc, nexts, alt>>

PushBack(v) ==
    /\ ~panicked /\ ~iterating /\ pushes < MaxPushes
    /\ LET r == push_back(list, v)
       IN  list' = r.list /\ panicked' = r.panic
    /\ lastOp' = "push_back" /\ arg' = v /\ ret' = None
    /\ abs' = Append(abs, v)
    /\ pushes' = pushes + 1
    /\ run' = run_push("back", v)
    /\ mirror' = twin_push(mirror, push_front(mirror.list, v))
    /\ order' = Append(order, alloc(list.memory, v).ret)
    /\ maxLen' = Max(maxLen, len(push_back(list, v).list).val)
    /\ UNCHANGED <<mem, overflow_checks, pops, iterating, iterSrc, nexts, alt>>

PopFront ==
    /\ ~panicked /\ ~iterating
    /\ LET r == pop_front(list)
       IN  /\ list' = r.list /\ panicked' = r.panic /\ ret' = r.ret
           /\ pops' = IF r.ret # None THEN pops + 1 ELSE pops
           /\ run' = run_pop("front", r.ret)
    /\ lastOp' = "pop_front" /\ arg' = 0
    /\ abs' = IF abs = <<>> THEN abs ELSE Tail(abs)
    /\ mirror' = twin_pop(mirror, pop_back(mirror.list))
    /\ order' = IF order = <<>> THEN order ELSE Tail(order)
    /\ UNCHANGED <<mem, overflow_checks, pushes, iterating, iterSrc, nexts, maxLen, alt>>

PopBack ==
    /\ ~panicked /\ ~iterating
    /\ LET r == pop_back(list)
       IN  /\ list' = r.list /\ panicked' = r.panic /\ ret' = r.ret
           /\ pops' = IF r.ret # None THEN pops + 1 ELSE pops
           /\ run' = run_pop("back", r.ret)
    /\ lastOp' = "pop_back" /\ arg' = 0
    /\ abs' = IF abs = <<>> THEN abs ELSE SubSeq(abs, 1, Len(abs) - 1)
    /\ mirror' = twin_pop(mirror, pop_front(mirror.list))
    /\ order' = IF order = <<>> THEN order ELSE ButLast(order)
    /\ UNCHANGED <<mem, overflow_checks, pushes, iterating, iterSrc, nexts, maxLen, alt>>

\* IntoIterator::into_iter: the list moves into the iterator
IntoIter ==
    /\ ~panicked /\ ~iterating
    /\ iterating' = TRUE
    /\ iterSrc' = front_to_back(list)
    /\ nexts' = <<>>
    /\ lastOp' = "into_iter" /\ arg' = 0 /\ ret' = None
    /\ UNCHANGED <<list, mem, overflow_checks, panicked, abs, pushes, pops, run,
                   mirror, order, maxLen, alt>>

\* Iterator::next on the LinkedListIter
IterNext ==
    /\ ~panicked /\ iterating
    /\ Len(nexts) - Len(Values(nexts)) < MaxExtraNext
    /\ LET r == next(list)
       IN  /\ list' = r.list /\ panicked' = r.panic /\ ret' = r.ret
           /\ pops' = IF r.ret # None THEN pops + 1 ELSE pops
           /\ nexts' = Append(nexts, r.ret)
           /\ run' = run_pop("front", r.ret)
    /\ lastOp' = "next" /\ arg' = 0
    /\ abs' = IF abs = <<>> THEN abs ELSE Tail(abs)
    /\ mirror' = twin_pop(mirror, pop_back(mirror.list))
    /\ order' = IF order = <<>> THEN order ELSE Tail(order)
    /\ UNCHANGED <<mem, overflow_checks, pushes, iterating, iterSrc, maxLen, alt>>

Next ==
    \/ \E v \in Payloads : PushFront(v)
    \/ \E v \in Payloads : PushBack(v)
    \/ PopFront
    \/ PopBack
    \/ IntoIter
    \/ IterNext

Spec == Init /\ [][Next]_vars

\* ---- operations on the arena alone ----
MemAlloc(v) ==
    /\ ~panicked
    /\ mem.free_slots = <<>> => Len(mem.slots) < MaxSlots
    /\ LET r == alloc(mem, v)
       IN  mem' = r.mem /\ panicked' = r.panic /\ ret' = Some(r.ret)
    /\ lastOp' = "alloc" /\ arg' = v
    /\ UNCHANGED <<list, overflow_checks, abs, pushes, pops, run, iterating, iterSrc, nexts,
                   mirror, order, maxLen, alt>>

\* remove, called with a handle that alloc returned earlier
MemRemove(h) ==
    /\ ~panicked
    /\ h <= Len(mem.slots)
    /\ Len(mem.free_slots) < MaxFree
    /\ LET r == remove(mem, h)
       IN  mem' = r.mem /\ panicked' = r.panic /\ ret' = r.ret
    /\ lastOp' = "remove" /\ arg' = h
    /\ UNCHANGED <<list, overflow_checks, abs, pushes, pops, run, iterating, iterSrc, nexts,
                   mirror, order, maxLen, alt>>

\* get_mut, called with any handle; the caller only looks at the node
MemGetMut(h) ==
    /\ ~panicked
    /\ h <= Len(mem.slots) + 1
    /\ ret' = get_mut(mem, h)
    /\ lastOp' = "get_mut" /\ arg' = h
    /\ UNCHANGED <<list, mem, overflow_checks, panicked, abs, pushes, pops, run,
                   iterating, iterSrc, nexts, mirror, order, maxLen, alt>>

NextMem ==
    \/ \E v \in Payloads : MemAlloc(v)
    \/ \E h \in 1 .. MaxSlots : MemRemove(h)
    \/ \E h \in 0 .. (MaxSlots + 1) : MemGetMut(h)

SpecMem == Init /\ [][NextMem]_vars

\* ---- two lists given the same calls, the second free in which slot it reuses ----
\* an arena that will reuse its k-th vacated slot next: that index moved to
\* the top of the free stack (k = Len(free_slots) is the order of Memory::alloc)
reuse_choice(m, k) ==
    IF k >= 1 /\ k < Len(m.free_slots)
    THEN [m EXCEPT !.free_slots =
             Append(SubSeq(@, 1, k - 1) \o SubSeq(@, k + 1, Len(@)), @[k])]
    ELSE m

alt_choosing(k) == [alt.list EXCEPT !.memory = reuse_choice(@, k)]

RPushFront(v, k) ==
    /\ ~panicked /\ pushes < MaxPushes
    /\ k <= Max(1, Len(alt.list.memory.free_slots))
    /\ LET r == push_front(list, v)
       IN  list' = r.list /\ panicked' = r.panic
    /\ alt' = twin_push(alt, push_front(alt_choosing(k), v))
    /\ lastOp' = "push_front" /\ arg' = v /\ ret' = None
    /\ pushes' = pushes + 1
    /\ UNCHANGED <<mem, overflow_checks, abs, pops, run, iterating, iterSrc, nexts,
                   mirror, order, maxLen>>

RPushBack(v, k) ==
    /\ ~panicked /\ pushes < MaxPushes
    /\ k <= Max(1, Len(alt.list.memory.free_slots))
    /\ LET r == push_back(list, v)
       IN  list' = r.list /\ panicked' = r.panic
    /\ alt' = twin_push(alt, push_back(alt_choosing(k), v))
    /\ lastOp' = "push_back" /\ arg' = v /\ ret' = None
    /\ pushes' = pushes + 1
    /\ UNCHANGED <<mem, overflow_checks, abs, pops, run, iterating, iterSrc, nexts,
                   mirror, order, maxLen>>

RPopFront ==
    /\ ~panicked
    /\ LET r == pop_front(list)
       IN  list' = r.list /\ panicked' = r.panic /\ ret' = r.ret
    /\ alt' = twin_pop(alt, pop_front(alt.list))
    /\ lastOp' = "pop_front" /\ arg' = 0
    /\ UNCHANGED <<mem, overflow_checks, abs, pushes, pops, run, iterating, iterSrc, nexts,
                   mirror, order, maxLen>>

RPopBack ==
    /\ ~panicked
    /\ LET r == pop_back(list)
       IN  list' = r.list /\ panicked' = r.panic /\ ret' = r.ret
    /\ alt' = twin_pop(alt, pop_back(alt.list))
    /\ lastOp' = "pop_back" /\ arg' = 0
    /\ UNCHANGED <<mem, overflow_checks, abs, pushes, pops, run, iterating, iterSrc, nexts,
                   mirror, order, maxLen>>

NextReuse ==
    \/ \E v \in Payloads, k \in 1 .. MaxPushes : RPushFront(v, k)
    \/ \E v \in Payloads, k \in 1 .. MaxPushes : RPushBack(v, k)
    \/ RPopFront
    \/ RPopBack

SpecReuse == Init /\ [][NextReuse]_vars

\* ---- properties ----
Last(q) == q[Len(q)]
First_or_none(q) == IF q = <<>> THEN None ELSE Some(Head(q))
Last_or_none(q) == IF q = <<>> THEN None ELSE Some(Last(q))
Reverse(q) == [i \in 1 .. Len(q) |-> q[Len(q) + 1 - i]]
Occupied(m) == Cardinality({i \in 1 .. Len(m.slots) : m.slots[i] # None})

\* C1: the list behaves like the abstract sequence: pop_front returns its
\* first element, pop_back its last, and popping the front repeatedly yields
\* the sequence front to back, after every operation.
C1_BehavesLikeSequence ==
    [][ /\ lastOp' = "pop_front" => ret' = First_or_none(abs)
        /\ lastOp' = "pop_back" => ret' = Last_or_none(abs)
        /\ ~panicked'
        /\ drain(list', Len(list'.memory.slots) + 1) = abs' ]_vars

\* a pop returned a value from a list that holds more values in reused slots
C1_Witness ==
    /\ lastOp \in {"pop_front", "pop_back"} /\ ret # None
    /\ Len(abs) >= 2
    /\ Len(list.memory.slots) < pushes
    /\ pops >= 2

\* C2: length() is the number of pushes minus the number of pops that
\* returned a value, and it is 0 exactly when head and tail are both null.
C2_Length ==
    /\ ~len(list).panic
    /\ len(list).val = pushes - pops
    /\ (len(list).val = 0) <=> (list.head = 0 /\ list.tail = 0)

\* the list was filled from both ends and emptied again
C2_Witness ==
    /\ pushes >= 3 /\ pops = pushes
    /\ len(list).val = 0 /\ list.head = 0 /\ list.tail = 0
    /\ lastOp \in {"pop_front", "pop_back"}

\* C3: queue law: after push_back calls onto an empty list, the pop_front
\* calls return the pushed payloads in the order they were pushed.
C3_QueueLaw ==
    (run.push_end = "back" /\ run.pop_end = "front")
        => /\ Len(run.popped) <= Len(run.pushed)
           /\ \A i \in 1 .. Len(run.popped) : run.popped[i] = Some(run.pushed[i])

\* 0, 1, 2 pushed at the back of a list emptied by earlier pops, popped at the front
C3_Witness ==
    /\ pops > 3
    /\ run.push_end = "back" /\ run.pop_end = "front"
    /\ run.pushed = <<0, 1, 2>>
    /\ run.popped = <<Some(0), Some(1), Some(2)>>

\* C4: stack law: after pushes at one end of an empty list, the pops from
\* that same end return the pushed payloads in reverse order of insertion.
C4_StackLaw ==
    (run.push_end \in {"front", "back"} /\ run.pop_end = run.push_end)
        => /\ Len(run.popped) <= Len(run.pushed)
           /\ \A i \in 1 .. Len(run.popped) :
                  run.popped[i] = Some(run.pushed[Len(run.pushed) + 1 - i])

\* 0, 1, 2 pushed at the back and popped at the back
C4_Witness ==
    /\ run.push_end = "back" /\ run.pop_end = "back"
    /\ run.pushed = <<0, 1, 2>>
    /\ run.popped = <<Some(2), Some(1), Some(0)>>

\* C5: symmetry law: after push_front calls onto an empty list, the pop_back
\* calls return the pushed payloads in the order they were pushed.
C5_SymmetryLaw ==
    (run.push_end = "front" /\ run.pop_end = "back")
        => /\ Len(run.popped) <= Len(run.pushed)
           /\ \A i \in 1 .. Len(run.popped) : run.popped[i] = Some(run.pushed[i])

\* 0, 1, 2 pushed at the front and popped at the back
C5_Witness ==
    /\ run.push_end = "front" /\ run.pop_end = "back"
    /\ run.pushed = <<0, 1, 2>>
    /\ run.popped = <<Some(0), Some(1), Some(2)>>

\* C6: pop_front and pop_back on an empty list return None, do not panic
\* and leave head, tail, the slots and the free stack as they were.
C6_PopOnEmpty ==
    [][ (lastOp' \in {"pop_front", "pop_back"} /\ abs = <<>>)
            => (ret' = None /\ ~panicked' /\ list' = list) ]_vars

\* a pop was called on a list that earlier pops had emptied
C6_Witness ==
    /\ lastOp \in {"pop_front", "pop_back"} /\ ret = None
    /\ abs = <<>> /\ pops >= 2
    /\ list.memory.free_slots # <<>>

\* C7: the iterator made from a list of n payloads returns them front to
\* back in its first n next() calls and None in every later call.
C7_IterTerminates ==
    iterating
        => /\ \A i \in 1 .. Len(nexts) :
                  nexts[i] = IF i <= Len(iterSrc) THEN Some(iterSrc[i]) ELSE None
           /\ len(list).val + Len(Values(nexts)) = Len(iterSrc)

\* three payloads were produced and two further calls returned None
C7_Witness ==
    /\ iterating /\ Len(iterSrc) = 3
    /\ Len(nexts) = 5 /\ nexts[3] # None /\ nexts[4] = None /\ nexts[5] = None

\* C8: remove on a vacated handle returns None and pushes nothing, so the
\* free stack never holds the same index twice.
C8_RemoveIdempotentSafe ==
    /\ [][ (lastOp' = "remove" /\ slot_at(mem, arg' - 1) = None)
               => (ret' = None /\ mem'.free_slots = mem.free_slots) ]_vars
    /\ [](\A i, j \in 1 .. Len(mem.free_slots) :
              i # j => mem.free_slots[i] # mem.free_slots[j])

\* C9: after alloc and remove calls on handles alloc returned, the count is
\* the number of occupied slots.
C9_CountIsOccupied ==
    /\ ~Memory_len(mem).panic
    /\ Memory_len(mem).val = Occupied(mem)

\* C10: get_mut(0) is None; get_mut(h) for h # 0 is the node in slot h-1
\* if that slot exists and is occupied, None otherwise; the arena is unchanged.
C10_GetMut ==
    [][ lastOp' = "get_mut"
            => /\ arg' = 0 => ret' = None
               /\ arg' # 0 => ((ret' # None) <=>
                                  (arg' <= Len(mem.slots) /\ mem.slots[arg'] # None))
               /\ ret' # None => ret' = mem.slots[arg']
               /\ mem' = mem /\ ~panicked' ]_vars

\* get_mut was called on the handle of a vacated slot
C10_Witness ==
    /\ lastOp = "get_mut" /\ arg # 0 /\ ret = None
    /\ arg <= Len(mem.slots)
    /\ Occupied(mem) > 0

\* C11: mirror law: with push_front/push_back swapped and pop_front/pop_back
\* swapped, every pop returns the same value as the pop it mirrors and the
\* contents of the mirrored list are the reversal of the list's.
C11_MirrorLaw ==
    /\ ~mirror.panicked
    /\ lastOp \in {"pop_front", "pop_back", "next"} => mirror.ret = ret
    /\ drain(mirror.list, Len(mirror.list.memory.slots) + 1)
           = Reverse(drain(list, Len(list.memory.slots) + 1))

\* a pop returned a value after pushes at both ends, leaving contents that
\* differ from their reversal
C11_Witness ==
    /\ lastOp \in {"pop_front", "pop_back"} /\ ret # None /\ mirror.ret = ret
    /\ pops >= 2
    /\ Len(abs) >= 2 /\ abs # Reverse(abs)
    /\ run = MixedRun

\* C12: each live node's link is the XOR of the handles of its true previous
\* and next neighbours (0 for none), and the walk from head, arrived from 0,
\* visits exactly len() distinct occupied nodes and ends at tail.
C12_XorLinks ==
    /\ \A i \in 1 .. Len(order) :
           /\ get_mut(list.memory, order[i]) # None
           /\ get_mut(list.memory, order[i])[1].ptr
                  = Xor(IF i = 1 THEN 0 ELSE order[i - 1],
                        IF i = Len(order) THEN 0 ELSE order[i + 1])
    /\ \A i, j \in 1 .. Len(order) : i # j => order[i] # order[j]
    /\ walk_ptrs(list.memory, 0, list.head, Len(list.memory.slots) + 1) = order
    /\ Len(order) = len(list).val
    /\ order # <<>> => Last(order) = list.tail

\* three live nodes whose handles are out of slot order, in an arena with a reused slot
C12_Witness ==
    /\ Len(order) = 3 /\ order[1] > order[2] /\ order[2] < order[3]
    /\ Len(list.memory.slots) < pushes
    /\ ~iterating

\* C13: len() = 0 iff head and tail are null; len() = 1 iff head = tail,
\* non-null, and that node's link is 0; len() >= 2 iff head and tail are
\* distinct and non-null; a non-null head or tail denotes an occupied slot.
C13_HeadTailShape ==
    LET n == len(list).val
        head_node == get_mut(list.memory, list.head)
    IN  /\ (n = 0) <=> (list.head = 0 /\ list.tail = 0)
        /\ (n = 1) <=> (list.head = list.tail /\ list.head # 0
                           /\ head_node # None /\ head_node[1].ptr = 0)
        /\ (n >= 2) <=> (list.head # list.tail /\ list.head # 0 /\ list.tail # 0)
        /\ list.head # 0 => get_mut(list.memory, list.head) # None
        /\ list.tail # 0 => get_mut(list.memory, list.tail) # None

\* one node left after pushes and pops in mixed order
C13_Witness ==
    /\ len(list).val = 1 /\ list.head = list.tail /\ list.head # 0
    /\ pops >= 2 /\ lastOp \in {"pop_front", "pop_back"}
    /\ run = MixedRun

Shape(l) ==
    IF l.head = 0 /\ l.tail = 0 THEN "Empty"
    ELSE IF l.head = l.tail THEN "Single"
    ELSE "Multi"

\* C14: a push takes Empty to Single, Single to Multi or Multi to Multi; a
\* pop that returns a value takes Multi to Multi, Multi to Single (exactly
\* when two elements were held, and the survivor's link becomes 0) or Single
\* to Empty; every such step changes len() by one, and nothing else changes
\* the list.
C14_Transitions ==
    [][ LET before == Shape(list)
            after == Shape(list')
            n == len(list).val
            n2 == len(list').val
        IN  /\ lastOp' \in {"push_front", "push_back"}
                => /\ <<before, after>> \in {<<"Empty", "Single">>, <<"Single", "Multi">>,
                                             <<"Multi", "Multi">>}
                   /\ n2 = n + 1
            /\ (lastOp' \in {"pop_front", "pop_back", "next"} /\ ret' # None)
                => /\ <<before, after>> \in {<<"Multi", "Multi">>, <<"Multi", "Single">>,
                                             <<"Single", "Empty">>}
                   /\ n2 = n - 1
                   /\ (before = "Multi" /\ after = "Single") <=> n = 2
                   /\ after = "Single" => get_mut(list'.memory, list'.head)[1].ptr = 0
            /\ (lastOp' \in {"pop_front", "pop_back", "next"} /\ ret' = None)
                => list' = list
            /\ lastOp' = "into_iter" => list' = list ]_vars

\* a pop has taken a list of two elements to a single node with link 0
C14_Witness ==
    /\ lastOp \in {"pop_front", "pop_back"} /\ ret # None
    /\ Shape(list) = "Single" /\ len(list).val = 1
    /\ get_mut(list.memory, list.head)[1].ptr = 0
    /\ maxLen >= 3

\* C15: a pop_front that returns a value sets tail to 0 if it leaves the list
\* empty and leaves tail as it was otherwise; pop_back does the same to head;
\* after a pop that empties the list head and tail are both 0.
C15_PopFrame ==
    [][ /\ (lastOp' \in {"pop_front", "next"} /\ ret' # None)
            => IF abs' = <<>>
               THEN list'.tail = 0 /\ list'.head = 0
               ELSE list'.tail = list.tail /\ list'.tail # 0
        /\ (lastOp' = "pop_back" /\ ret' # None)
            => IF abs' = <<>>
               THEN list'.head = 0 /\ list'.tail = 0
               ELSE list'.head = list.head /\ list'.head # 0 ]_vars

\* a pop_back has emptied a list that had held several elements
C15_Witness ==
    /\ lastOp = "pop_back" /\ ret # None
    /\ abs = <<>> /\ list.head = 0 /\ list.tail = 0
    /\ maxLen >= 2 /\ pops >= 2

FreeIndices(m) == {m.free_slots[i] : i \in 1 .. Len(m.free_slots)}
VacatedIndices(m) == {i - 1 : i \in {j \in 1 .. Len(m.slots) : m.slots[j] = None}}

\* C16: the free stack holds exactly the indices of the vacated slots, each
\* once; a push gets a handle whose slot was not occupied, and no two live
\* nodes share a slot.
C16_FreeStack ==
    /\ [](/\ FreeIndices(list.memory) = VacatedIndices(list.memory)
          /\ Len(list.memory.free_slots) = Cardinality(VacatedIndices(list.memory))
          /\ Cardinality({order[i] : i \in 1 .. Len(order)}) = Len(order)
          /\ Len(order) = Occupied(list.memory))
    /\ [][ /\ lastOp' = "push_front"
               => (Head(order') # 0 /\ slot_at(list.memory, Head(order') - 1) = None)
           /\ lastOp' = "push_back"
               => (Last(order') # 0 /\ slot_at(list.memory, Last(order') - 1) = None) ]_vars

\* a push has reused one of several vacated slots
C16_Witness ==
    /\ lastOp \in {"push_front", "push_back"}
    /\ Len(list.memory.free_slots) = 2 /\ Len(list.memory.slots) = 3
    /\ list.memory.free_slots[1] > list.memory.free_slots[2]
    /\ Occupied(list.memory) = 1

\* C17: a pop calls remove only with a non-null handle whose slot is
\* occupied: whenever a pop puts an index on the free stack it is the index
\* of the popped end's handle, that handle is not 0, its slot was occupied
\* and its payload is returned; otherwise the pop changes nothing.
C17_RemoveOccupied ==
    [][ lastOp' \in {"pop_front", "pop_back", "next"}
            => LET h == IF lastOp' = "pop_back" THEN list.tail ELSE list.head
               IN  /\ ~panicked'
                   /\ IF list'.memory.free_slots # list.memory.free_slots
                      THEN /\ h # 0
                           /\ get_mut(list.memory, h) # None
                           /\ list'.memory.free_slots = Append(list.memory.free_slots, h - 1)
                           /\ ret' = Some(get_mut(list.memory, h)[1].payload)
                           /\ get_mut(list'.memory, h) = None
                      ELSE list' = list /\ ret' = None ]_vars

\* the one slot of the arena has been removed, allocated again and removed again
C17_Witness ==
    /\ lastOp \in {"pop_front", "pop_back"} /\ ret # None
    /\ pops >= 2
    /\ Len(list.memory.slots) = 1 /\ list.memory.free_slots = <<0>>

\* C18: the order in which vacated slots are reused is not observable: a
\* list whose arena reuses any vacated slot returns the same value from every
\* pop as the list reusing the most recently vacated one, has the same len()
\* after every call, and panics exactly when it does.
C18_ReuseOrder ==
    /\ alt.panicked = panicked
    /\ lastOp \in {"pop_front", "pop_back"} => alt.ret = ret
    /\ len(alt.list) = len(list)
    /\ drain(alt.list, Len(alt.list.memory.slots) + 1)
           = drain(list, Len(list.memory.slots) + 1)

\* a pop returned a value from two lists whose nodes sit in different slots
C18_Witness ==
    /\ lastOp \in {"pop_front", "pop_back"} /\ ret # None /\ alt.ret = ret
    /\ len(list).val >= 1
    /\ walk_ptrs(alt.list.memory, 0, alt.list.head, Len(alt.list.memory.slots) + 1)
           # walk_ptrs(list.memory, 0, list.head, Len(list.memory.slots) + 1)
    /\ alt.list.memory.free_slots # list.memory.free_slots

\* C19: the number of slots never decreases; it grows, by one, only in a push
\* that finds no vacated slot; so it always equals the largest len() so far.
C19_SlotsGrow ==
    /\ [](Len(list.memory.slots) = maxLen)
    /\ [][ /\ Len(list'.memory.slots) >= Len(list.memory.slots)
           /\ Len(list'.memory.slots) # Len(list.memory.slots)
                  => /\ lastOp' \in {"push_front", "push_back"}
                     /\ Len(list'.memory.slots) = Len(list.memory.slots) + 1
                     /\ VacatedIndices(list.memory) = {}
                     /\ list.memory.free_slots = <<>>
           /\ (lastOp' \in {"push_front", "push_back"} /\ VacatedIndices(list.memory) # {})
                  => Len(list'.memory.slots) = Len(list.memory.slots) ]_vars

\* a push has reused a vacated slot of an arena that had grown to three slots
C19_Witness ==
    /\ lastOp \in {"push_front", "push_back"}
    /\ Len(list.memory.slots) = 3 /\ maxLen = 3
    /\ pushes = 4 /\ len(list).val = 2

====
